---------------------------- MODULE Spec2Model ----------------------------
(***************************************************************************)
(* State-machine model of src/scanner.py (BitcoinScanner): the supervisor  *)
(* loop of scan_addresses, the worker processes, the three manager queues, *)
(* the shutdown flag and the batch-size controller; and, each under a      *)
(* specification of its own, key generation and address derivation on a    *)
(* bounded instance of the curve (SpecKey), the load of the address lists  *)
(* and the lookup (SpecLoad), and the download with retries (SpecDownload).*)
(*                                                                         *)
(* Time is counted in ticks of 0.1 s, the supervisor's time.sleep(0.1):    *)
(* STATS_INTERVAL = 2.0 s is 20 ticks.  A match is identified by the       *)
(* number of the match event (1, 2, ...), standing for its                 *)
(* (wif, address, balance) tuple.                                          *)
(***************************************************************************)
EXTENDS Integers, Sequences, FiniteSets, TLC

\* ---------------------------------------------------------------- Config
INITIAL_BATCH_SIZE == 100000
MAX_BATCH_SIZE == 500000
MIN_BATCH_SIZE == 10000
TARGET_SPEED == 5000000
\* STATS_INTERVAL: float = 2.0 seconds, in ticks
STATS_INTERVAL == 20
\* time.sleep(0.1): ticks per second
TicksPerSecond == 10

\* THREADS: int = max(cpu_count * 2, 8): the model runs a pool of 2
THREADS == 2

\* ECC constants of __init__ on a bounded instance of the curve: y^2 = x^3 + 7
\* over the field of 97 elements, a group of prime order 79 with generator
\* (1, 28); as in secp256k1 the group order is below the field prime
secp256k1_p == 97
secp256k1_Gx == 1
secp256k1_Gy == 28
secp256k1_n == 79
\* MAX_RETRIES: int = 3, RETRY_DELAY: float = 5.0 seconds
MAX_RETRIES == 3
RETRY_DELAY == 5
\* a private key is 32 bytes and the multiplication scans range(256) bits: the
\* instance has keys of one byte, scanned over 8 bits
KeyLen == 1
KeyBits == 8
\* the values of a byte: random.SystemRandom().getrandbits(8)
ByteValues == 256

\* ---------------------------------------------------------------- bounds
\* batches the supervisor submits in Spec before the model stops the run
MaxSubmits == 2
\* batches the supervisor submits in SpecFair
MaxSubmitsFair == 1
\* match events in a run
MaxMatches == 2
\* candidates of a batch that are stepped one by one; the rest of the batch
\* is processed in one step
MaxSingleSteps == 1

\* iterations of the supervisor loop in SpecCtl
MaxRounds == 6
\* lines of the dataset file in SpecLoad
MaxLines == 3
\* calls of download_address_file in SpecDownload
MaxCalls == 3
\* chunks of CHUNK_SIZE bytes the dataset file is made of
FileChunks == 3

Workers == 1..THREADS
\* ticks that pass in one supervisor iteration (at least the sleep of 0.1 s):
\* in Spec every iteration is a slow one, SpecCtl mixes fast and slow ones
RoundTicks == {STATS_INTERVAL}
Delays == {1, STATS_INTERVAL}
\* counts that arrive on progress_queue in SpecCtl: none, and the counts
\* that put the throughput of one cadence interval just below, at and just
\* above 0.8 x TARGET_SPEED and 1.2 x TARGET_SPEED
CtlCounts == {0, 7999999, 8000000, 12000000, 12000001}
\* the None sentinel of task_queue
None == 0

VARIABLES
    sup_pc,           \* position of scan_addresses
    shutdown_flag,    \* self.shutdown_flag (multiprocessing.Event)
    task_queue, result_queue, progress_queue,
    batch_size,       \* local batch_size of scan_addresses
    processed,        \* local processed of one loop iteration
    cur,              \* the list got from result_queue, records still to write
    total_checked, found_count,
    now,              \* the wall clock, in ticks
    start_time, last_stats_time,
    log,              \* FOUND_FILE: the records appended so far
    join_idx,         \* position of the join loop of the cleanup
    w_pc, w_batch, w_checked, w_found,   \* per worker: position and locals
    mem_low,          \* environment: memory headroom below the safety threshold
    n_submitted,      \* history: batch sizes put on task_queue
    n_matches,        \* history: match events so far
    n_processed,      \* history: candidates the workers have processed
    n_changes,        \* history: changes of batch_size
    last_change_time, \* history: clock at the last change of batch_size
    n_reports,        \* history: final reports printed
    cand,             \* one candidate of the worker loop: key and address
    db,               \* load_address_database: input, lists and lookups
    dl                \* download_address_file: the file and the attempts

vars == <<sup_pc, shutdown_flag, task_queue, result_queue, progress_queue,
          batch_size, processed, cur, total_checked, found_count, now,
          start_time, last_stats_time, log, join_idx,
          w_pc, w_batch, w_checked, w_found, mem_low,
          n_submitted, n_matches, n_processed, n_changes, last_change_time,
          n_reports, cand, db, dl>>

\* the state of the functions that run before the scan or inside one candidate
fn_vars == <<cand, db, dl>>

sup_vars == <<sup_pc, batch_size, processed, cur, total_checked, found_count,
              now, start_time, last_stats_time, log, join_idx, mem_low,
              n_submitted, n_changes, last_change_time, n_reports>>

worker_vars == <<w_pc, w_batch, w_checked, w_found, n_matches, n_processed>>

Min(a, b) == IF a < b THEN a ELSE b
Max(a, b) == IF a > b THEN a ELSE b

RECURSIVE SumSeq(_)
SumSeq(s) == IF s = <<>> THEN 0 ELSE Head(s) + SumSeq(Tail(s))

\* ---------------------------------------------------------------- keys
\* Python None as the result of a function that returns a point or a string,
\* and the (None, None) of _ecc_point_mul before the first set bit
NoPoint == <<>>
NoAddress == <<>>

\* int.from_bytes(private_key, 'big')
RECURSIVE FromBytes(_)
FromBytes(b) ==
    IF b = <<>> THEN 0
    ELSE FromBytes(SubSeq(b, 1, Len(b) - 1)) * ByteValues + b[Len(b)]

\* pow(b, e, m)
RECURSIVE ModPow(_, _, _)
ModPow(b, e, m) ==
    IF e = 0 THEN 1 % m
    ELSE LET h == ModPow(b, e \div 2, m)
             sq == (h * h) % m
         IN  IF e % 2 = 1 THEN (sq * (b % m)) % m ELSE sq

RECURSIVE Pow2(_)
Pow2(i) == IF i = 0 THEN 1 ELSE 2 * Pow2(i - 1)

\* d & (1 << i)
BitSet(d, i) == (d \div Pow2(i)) % 2 = 1

\* "Point doubling" of _ecc_point_mul: Qx is assigned before Qy is computed,
\* so the expression for Qy reads the new Qx
EccDouble(Q) ==
    LET l == ((3 * Q[1] * Q[1]) * ModPow(2 * Q[2], secp256k1_p - 2, secp256k1_p))
                 % secp256k1_p
        Qx == (l * l - 2 * Q[1]) % secp256k1_p
        Qy == (l * (Qx - (l * l - 2 * Qx)) - Q[2]) % secp256k1_p
    IN  <<Qx, Qy>>

\* "Point addition" of _ecc_point_mul: Q + G
EccAddG(Q) ==
    LET l == ((Q[2] - secp256k1_Gy)
                 * ModPow(Q[1] - secp256k1_Gx, secp256k1_p - 2, secp256k1_p))
                 % secp256k1_p
        Qx == (l * l - Q[1] - secp256k1_Gx) % secp256k1_p
        Qy == (l * (secp256k1_Gx - Qx) - secp256k1_Gy) % secp256k1_p
    IN  <<Qx, Qy>>

\* one iteration of for i in reversed(range(256))
EccStep(Q, d, i) ==
    LET D == IF Q # NoPoint THEN EccDouble(Q) ELSE Q
    IN  IF BitSet(d, i)
        THEN IF D = NoPoint THEN <<secp256k1_Gx, secp256k1_Gy>> ELSE EccAddG(D)
        ELSE D

\* the loop from bit i down to bit 0
RECURSIVE EccLoop(_, _, _)
EccLoop(Q, d, i) ==
    IF i < 0 THEN Q ELSE EccLoop(EccStep(Q, d, i), d, i - 1)

\* _ecc_point_mul(d)
ecc_point_mul(d) == EccLoop(NoPoint, d, KeyBits - 1)

\* if 1 <= d < self.secp256k1_n: return private_key (generate_valid_private_key)
KeyAcceptedClamped(d) == d < secp256k1_n

KeyAccepted(d) == 1 <= d /\ d < secp256k1_n

\* 1 <= d < self.secp256k1_n (private_key_to_address)
ScalarInRangeNoUpper(d) == 1 <= d

ScalarInRange(d) == 1 <= d /\ d < secp256k1_n

\* pubkey = bytes([0x02 + (Qy % 2)]) + Qx.to_bytes(32, 'big')
Pubkey(Q) == <<2 + (Q[2] % 2), Q[1]>>

\* version byte 0x00, hash160 of the public key, checksum, base58: the digests
\* are kept symbolic, the address is the version byte with the public key
Address(pubkey) == <<0>> \o pubkey

\* private_key_to_address(private_key): the result, whether _ecc_point_mul
\* was called, and the point it returned.  Qy % 2 on (None, None) raises, and
\* the bare except returns None.
PrivateKeyToAddress(private_key) ==
    IF Len(private_key) # KeyLen
    THEN [addr |-> NoAddress, mul |-> FALSE, point |-> NoPoint]
    ELSE IF ~ScalarInRange(FromBytes(private_key))
    THEN [addr |-> NoAddress, mul |-> FALSE, point |-> NoPoint]
    ELSE LET Q == ecc_point_mul(FromBytes(private_key))
         IN  IF Q = NoPoint
             THEN [addr |-> NoAddress, mul |-> TRUE, point |-> Q]
             ELSE [addr |-> Address(Pubkey(Q)), mul |-> TRUE, point |-> Q]

\* the 32 random bytes of one draw
KeyDraws == [1..KeyLen -> 0..(ByteValues - 1)]

\* arguments of private_key_to_address: too short, of the right length, and
\* too long with an integer value on either side of the range
KeyInputs ==
    {<<>>} \cup KeyDraws
           \cup {<<a, b>> : a \in {0, 1},
                            b \in {0, 1, secp256k1_n - 1, secp256k1_n}}

\* a worker at the top of its for loop, no call of private_key_to_address yet
CandInit ==
    [pc |-> "gen", draw |-> <<>>, dropped |-> <<>>, key |-> <<>>,
     caller |-> "none",
     arg |-> <<>>, addr |-> NoAddress, mul |-> FALSE, point |-> NoPoint]

\* ------------------------------------------------------------- TargetSet
\* A text is a sequence of character codes in code-point order: 0 is a blank,
\* 1 and 3 are the digits '1' and '3', larger codes are letters.
Blank == 0
Digit1 == 1
Digit3 == 3

\* str.strip()
RECURSIVE StripLeft(_)
StripLeft(t) ==
    IF t # <<>> /\ Head(t) = Blank THEN StripLeft(Tail(t)) ELSE t

RECURSIVE StripRight(_)
StripRight(t) ==
    IF t # <<>> /\ t[Len(t)] = Blank
    THEN StripRight(SubSeq(t, 1, Len(t) - 1))
    ELSE t

Strip(t) == StripRight(StripLeft(t))

\* parts[0].startswith(('1', '3'))
StartsWith13(t) == t # <<>> /\ Head(t) \in {Digit1, Digit3}

\* a < b on str
RECURSIVE StrLess(_, _)
StrLess(a, b) ==
    IF b = <<>> THEN FALSE
    ELSE IF a = <<>> THEN TRUE
    ELSE IF Head(a) # Head(b) THEN Head(a) < Head(b)
    ELSE StrLess(Tail(a), Tail(b))

\* int(float(parts[1])) on the text of the balance field: a decimal text
\* (value in tenths) is truncated to an integer; float() raises ValueError on
\* a word, int() raises ValueError on nan and OverflowError on inf
IntOfFloat(b) ==
    IF b.kind = "num" THEN [exc |-> "none", value |-> b.tenths \div 10]
    ELSE IF b.kind = "inf" THEN [exc |-> "OverflowError", value |-> 0]
    ELSE [exc |-> "ValueError", value |-> 0]

\* the body of the for loop of load_address_database on one line (n: the
\* number of fields of line.strip().split('\t')): the lists after the line,
\* and the exception that leaves the inner try, if any
LoadLine(addrs, bals, line) ==
    IF line.n >= 2 /\ StartsWith13(line.addr)
    THEN LET r == IntOfFloat(line.bal)
         IN  IF r.exc = "none"
             THEN [addrs |-> Append(addrs, Strip(line.addr)),
                   bals |-> Append(bals, r.value), raised |-> FALSE]
             ELSE [addrs |-> addrs, bals |-> bals,
                   raised |-> r.exc # "ValueError"]
    ELSE [addrs |-> addrs, bals |-> bals, raised |-> FALSE]

\* sorted(range(len(a)), key=lambda k: a[k]): a stable sort of the indices
RECURSIVE InsertIndex(_, _, _)
InsertIndex(a, idx, k) ==
    IF idx = <<>> THEN <<k>>
    ELSE IF StrLess(a[k], a[Head(idx)]) THEN <<k>> \o idx
    ELSE <<Head(idx)>> \o InsertIndex(a, Tail(idx), k)

RECURSIVE SortPrefix(_, _)
SortPrefix(a, m) ==
    IF m = 0 THEN <<>> ELSE InsertIndex(a, SortPrefix(a, m - 1), m)

UnsortedIndices(a) == [i \in 1..Len(a) |-> i]

SortedIndices(a) == SortPrefix(a, Len(a))

\* [lst[i] for i in sorted_indices]
Reorder(lst, idx) == [i \in 1..Len(idx) |-> lst[idx[i]]]

\* bisect.bisect_left(a, x): lo and hi count from 0
RECURSIVE BisectLeft(_, _, _, _)
BisectLeft(a, x, lo, hi) ==
    IF lo < hi
    THEN LET mid == (lo + hi) \div 2
         IN  IF StrLess(a[mid + 1], x)
             THEN BisectLeft(a, x, mid + 1, hi)
             ELSE BisectLeft(a, x, lo, mid)
    ELSE lo

\* the lookup of the worker: idx < len(address_list) and
\* address_list[idx] == address, then balance_list[idx]
Lookup(addrs, bals, address) ==
    LET idx == BisectLeft(addrs, address, 0, Len(addrs))
    IN  IF idx < Len(addrs) /\ addrs[idx + 1] = address
        THEN [present |-> TRUE, balance |-> bals[idx + 1]]
        ELSE [present |-> FALSE, balance |-> 0]

\* texts of the first field: three identifiers, one of them also with a blank
\* before the tab, and a text that starts with neither '1' nor '3'
Addr1A == <<Digit1, 10>>
Addr1B == <<Digit1, 11>>
Addr3A == <<Digit3, 10>>
Addr1ABlank == <<Digit1, 10, Blank>>
AddrOther == <<11, 12>>

\* texts of the second field: "2.5", "0.5", a word, "inf"
Num(t) == [kind |-> "num", tenths |-> t]
BalWord == [kind |-> "word", tenths |-> 0]
BalInf == [kind |-> "inf", tenths |-> 0]

Line(n, a, b) == [n |-> n, addr |-> a, bal |-> b]

\* the lines a dataset file is made of
Lines ==
    { Line(2, Addr1A, Num(25)), Line(2, Addr1A, Num(5)),
      Line(2, Addr1B, Num(5)), Line(3, Addr3A, Num(25)),
      Line(2, Addr1ABlank, Num(70)),
      Line(2, AddrOther, Num(5)),
      Line(1, Addr1B, BalWord), Line(1, <<>>, BalWord),
      Line(2, Addr1B, BalWord), Line(2, Addr3A, BalInf) }

RECURSIVE SeqsUpTo(_, _)
SeqsUpTo(S, m) ==
    IF m = 0 THEN {<<>>}
    ELSE LET shorter == SeqsUpTo(S, m - 1)
         IN  shorter \cup {Append(f, x) : f \in shorter, x \in S}

\* the contents of DOWNLOAD_PATH
Files == SeqsUpTo(Lines, MaxLines)

\* the addresses a worker looks up
Queries == {Addr1A, Addr1B, Addr3A, <<Digit1, 12>>, AddrOther}

\* before scan_addresses is called
DbInit ==
    [pc |-> "idle", file |-> <<>>, rest |-> <<>>, address_list |-> <<>>,
     balance_list |-> <<>>, ret |-> "none", cause |-> "none",
     query |-> <<>>, hit |-> [present |-> FALSE, balance |-> 0]]
\* ------------------------------------------------------------- download
\* DOWNLOAD_PATH: no file, or the number of chunks the file holds
Absent == -1

\* the file holds the whole of the dataset
Complete(file) == file = FileChunks

\* DOWNLOAD_PATH does not exist, download_address_file has not been called
DlInit ==
    [pc |-> "idle", file |-> Absent, attempt |-> 0, ret |-> "none",
     calls |-> 0, attempts |-> 0, failed |-> 0, sleeps |-> 0, waited |-> 0]

\* os.path.exists(self.cfg.DOWNLOAD_PATH)
Exists(file) == file # Absent

\* the except branch of an attempt: the sleep unless this was the last
\* attempt, after which the loop ends and False is returned
AttemptFailed(d) ==
    IF d.attempt < MAX_RETRIES - 1
    THEN [d EXCEPT !.failed = @ + 1, !.pc = "sleep"]
    ELSE [d EXCEPT !.failed = @ + 1, !.ret = "False", !.pc = "idle"]

\* ------------------------------------------------------------ construction
\* BitcoinScanner.__init__ and the start of scan_addresses: the queues are
\* created empty, the workers are started, the clocks are read.
InitialBatchSizeAtFloor == MIN_BATCH_SIZE

InitialBatchSize == INITIAL_BATCH_SIZE

Init ==
    /\ sup_pc = "loop"
    /\ shutdown_flag = FALSE
    /\ task_queue = <<>>
    /\ result_queue = <<>>
    /\ progress_queue = <<>>
    /\ batch_size = InitialBatchSize
    /\ processed = 0
    /\ cur = <<>>
    /\ total_checked = 0
    /\ found_count = 0
    /\ now = 0
    /\ start_time = 0
    /\ last_stats_time = 0
    /\ log = <<>>
    /\ join_idx = 1
    /\ w_pc = [w \in Workers |-> "get"]
    /\ w_batch = [w \in Workers |-> 0]
    /\ w_checked = [w \in Workers |-> 0]
    /\ w_found = [w \in Workers |-> <<>>]
    /\ mem_low = FALSE
    /\ n_submitted = 0
    /\ n_matches = 0
    /\ n_processed = 0
    /\ n_changes = 0
    /\ last_change_time = 0
    /\ n_reports = 0
    /\ cand = CandInit
    /\ db = DbInit
    /\ dl = DlInit

\* ------------------------------------------------------------------ signal
\* _handle_signal: SIGINT or SIGTERM sets the shutdown flag.
HandleSignal ==
    /\ ~shutdown_flag
    /\ sup_pc # "Stopped"
    /\ shutdown_flag' = TRUE
    /\ UNCHANGED <<task_queue, result_queue, progress_queue>>
    /\ UNCHANGED sup_vars
    /\ UNCHANGED worker_vars
    /\ UNCHANGED fn_vars

\* -------------------------------------------------------------- controller
\* TARGET_SPEED * 0.8 and TARGET_SPEED * 1.2, candidates per second
LowSpeed == (TARGET_SPEED * 8) \div 10
HighSpeed == (TARGET_SPEED * 12) \div 10

\* current_speed = total_checked / elapsed (elapsed > 0, in ticks) compared
\* with a speed in candidates per second, without dividing
SpeedBelow(total, elapsed, speed) == total * TicksPerSecond < speed * elapsed
SpeedAbove(total, elapsed, speed) == total * TicksPerSecond > speed * elapsed

\* Dynamic batch sizing: the batch size after one adjustment.  The code reads
\* no memory figure: low is accepted and ignored.
NextBatchSizeUnclamped(b, total, elapsed, low) ==
    IF elapsed <= 0 \/ SpeedBelow(total, elapsed, LowSpeed)
    THEN b * 2
    ELSE IF SpeedAbove(total, elapsed, HighSpeed)
         THEN b \div 2
         ELSE b

NextBatchSizeInclusive(b, total, elapsed, low) ==
    IF elapsed <= 0 \/ ~SpeedAbove(total, elapsed, LowSpeed)
    THEN Min(b * 2, MAX_BATCH_SIZE)
    ELSE IF ~SpeedBelow(total, elapsed, HighSpeed)
         THEN Max(b \div 2, MIN_BATCH_SIZE)
         ELSE b

NextBatchSize(b, total, elapsed, low) ==
    IF elapsed <= 0 \/ SpeedBelow(total, elapsed, LowSpeed)
    THEN Min(b * 2, MAX_BATCH_SIZE)
    ELSE IF SpeedAbove(total, elapsed, HighSpeed)
         THEN Max(b \div 2, MIN_BATCH_SIZE)
         ELSE b

\* the cadence test: current_time - last_stats_time >= STATS_INTERVAL
StatsDueEveryRound(current_time, last) == TRUE

StatsDue(current_time, last) == current_time - last >= STATS_INTERVAL

\* ------------------------------------------------------------- result sink
\* open(FOUND_FILE, 'a') and f.write(record): one record appended
WriteRecordTwice(l, m) == Append(Append(l, m), m)

WriteRecordDropped(l, m) == l

WriteRecord(l, m) == Append(l, m)

\* ------------------------------------------------------------- supervisor
\* while not shutdown_flag.is_set(): the loop test finds the flag clear and
\* the body is entered.  The signal handler runs between any two bytecodes of
\* the main process, so also between this test and the put of the body.
\* (limit: the number of batches after which the model stops the run)
S_LoopTest(limit) ==
    /\ sup_pc = "loop"
    /\ ~shutdown_flag
    /\ n_submitted < limit
    /\ sup_pc' = "put"
    /\ UNCHANGED <<shutdown_flag, task_queue, result_queue, progress_queue,
                   batch_size, processed, cur, total_checked, found_count, now,
                   start_time, last_stats_time, log, join_idx, mem_low,
                   n_submitted, n_changes, last_change_time, n_reports>>
    /\ UNCHANGED worker_vars
    /\ UNCHANGED fn_vars

\* task_queue.put(batch_size); processed = 0
S_Submit ==
    /\ sup_pc = "put"
    /\ task_queue' = Append(task_queue, batch_size)
    /\ n_submitted' = n_submitted + 1
    /\ processed' = 0
    /\ sup_pc' = "results"
    /\ UNCHANGED <<shutdown_flag, result_queue, progress_queue, batch_size, cur,
                   total_checked, found_count, now, start_time, last_stats_time,
                   log, join_idx, mem_low, n_changes, last_change_time, n_reports>>
    /\ UNCHANGED worker_vars
    /\ UNCHANGED fn_vars

\* the loop condition fails: the finally block sets the flag and puts one
\* None per worker
S_Cleanup ==
    /\ sup_pc = "loop"
    /\ shutdown_flag
    /\ shutdown_flag' = TRUE
    /\ task_queue' = task_queue \o [i \in 1..THREADS |-> None]
    /\ join_idx' = 1
    /\ sup_pc' = "join"
    /\ UNCHANGED <<result_queue, progress_queue, batch_size, processed, cur,
                   total_checked, found_count, now, start_time, last_stats_time,
                   log, mem_low, n_submitted, n_changes, last_change_time,
                   n_reports>>
    /\ UNCHANGED worker_vars
    /\ UNCHANGED fn_vars

\* while not result_queue.empty(): ... result_queue.get()
S_ResultsGet ==
    /\ sup_pc = "results"
    /\ result_queue # <<>>
    /\ cur' = Head(result_queue)
    /\ result_queue' = Tail(result_queue)
    /\ sup_pc' = "write"
    /\ UNCHANGED <<shutdown_flag, task_queue, progress_queue, batch_size,
                   processed, total_checked, found_count, now, start_time,
                   last_stats_time, log, join_idx, mem_low, n_submitted,
                   n_changes, last_change_time, n_reports>>
    /\ UNCHANGED worker_vars
    /\ UNCHANGED fn_vars

S_ResultsEmpty ==
    /\ sup_pc = "results"
    /\ result_queue = <<>>
    /\ sup_pc' = "progress"
    /\ UNCHANGED <<shutdown_flag, task_queue, result_queue, progress_queue,
                   batch_size, processed, cur, total_checked, found_count, now,
                   start_time, last_stats_time, log, join_idx, mem_low,
                   n_submitted, n_changes, last_change_time, n_reports>>
    /\ UNCHANGED worker_vars
    /\ UNCHANGED fn_vars

\* with open(FOUND_FILE, 'a') as f: f.write(...)
S_Write ==
    /\ sup_pc = "write"
    /\ cur # <<>>
    /\ log' = WriteRecord(log, Head(cur))
    /\ sup_pc' = "count"
    /\ UNCHANGED <<shutdown_flag, task_queue, result_queue, progress_queue,
                   batch_size, processed, cur, total_checked, found_count, now,
                   start_time, last_stats_time, join_idx, mem_low,
                   n_submitted, n_changes, last_change_time, n_reports>>
    /\ UNCHANGED worker_vars
    /\ UNCHANGED fn_vars

\* self.found_count += 1, and the next record of the list
S_Count ==
    /\ sup_pc = "count"
    /\ found_count' = found_count + 1
    /\ cur' = Tail(cur)
    /\ sup_pc' = IF Tail(cur) = <<>> THEN "results" ELSE "write"
    /\ UNCHANGED <<shutdown_flag, task_queue, result_queue, progress_queue,
                   batch_size, processed, total_checked, now, start_time,
                   last_stats_time, log, join_idx, mem_low, n_submitted,
                   n_changes, last_change_time, n_reports>>
    /\ UNCHANGED worker_vars
    /\ UNCHANGED fn_vars

\* if processed > 0: self.total_checked += processed
FoldProgress(total, p) == IF p > 0 THEN total + p ELSE total

\* while not progress_queue.empty(): processed += progress_queue.get(), then
\* the fold into total_checked.  The supervisor is the only reader of the
\* queue: a count put while the loop runs is either read by it (as if put
\* before) or left in the queue (as if put after).  processed is not read
\* again before the next iteration sets it to 0.
S_Progress ==
    /\ sup_pc = "progress"
    /\ total_checked' = FoldProgress(total_checked,
                                     processed + SumSeq(progress_queue))
    /\ progress_queue' = <<>>
    /\ processed' = 0
    /\ sup_pc' = "stats"
    /\ UNCHANGED <<shutdown_flag, task_queue, result_queue, batch_size, cur,
                   found_count, now, start_time, last_stats_time, log,
                   join_idx, mem_low, n_submitted, n_changes,
                   last_change_time, n_reports>>
    /\ UNCHANGED worker_vars
    /\ UNCHANGED fn_vars

\* current_time = time.time(); the adjustment when the cadence interval has
\* passed; last_stats_time = current_time.  self.current_speed is only
\* displayed and is not kept; the progress display changes no state.
S_Stats ==
    /\ sup_pc = "stats"
    /\ IF StatsDue(now, last_stats_time)
       THEN /\ batch_size' = NextBatchSize(batch_size, total_checked,
                                           now - start_time, mem_low)
            /\ last_stats_time' = now
       ELSE UNCHANGED <<batch_size, last_stats_time>>
    /\ n_changes' = IF batch_size' # batch_size THEN n_changes + 1 ELSE n_changes
    /\ last_change_time' = IF batch_size' # batch_size THEN now
                           ELSE last_change_time
    /\ sup_pc' = "sleep"
    /\ UNCHANGED <<shutdown_flag, task_queue, result_queue, progress_queue,
                   processed, cur, total_checked, found_count, now, start_time,
                   log, join_idx, mem_low, n_submitted, n_reports>>
    /\ UNCHANGED worker_vars
    /\ UNCHANGED fn_vars

\* time.sleep(0.1): the clock moves on by the time of one iteration (delays:
\* the durations the specification considers)
S_Sleep(delays) ==
    /\ sup_pc = "sleep"
    /\ \E d \in delays : now' = now + d
    /\ sup_pc' = "loop"
    /\ UNCHANGED <<shutdown_flag, task_queue, result_queue, progress_queue,
                   batch_size, processed, cur, total_checked, found_count,
                   start_time, last_stats_time, log, join_idx, mem_low,
                   n_submitted, n_changes, last_change_time, n_reports>>
    /\ UNCHANGED worker_vars
    /\ UNCHANGED fn_vars

\* for p in workers: p.join(timeout=1): the worker has left its loop
Exited(w) == w_pc[w] \in {"exit", "error", "killed"}

S_JoinExited ==
    /\ sup_pc = "join"
    /\ join_idx <= THREADS
    /\ Exited(join_idx)
    /\ join_idx' = join_idx + 1
    /\ UNCHANGED <<sup_pc, shutdown_flag, task_queue, result_queue,
                   progress_queue, batch_size, processed, cur, total_checked,
                   found_count, now, start_time, last_stats_time, log, mem_low,
                   n_submitted, n_changes, last_change_time, n_reports>>
    /\ UNCHANGED worker_vars
    /\ UNCHANGED fn_vars

\* a join without a timeout returns only when the worker has ended
S_JoinBlocks ==
    /\ sup_pc = "join"
    /\ join_idx <= THREADS
    /\ Exited(join_idx)
    /\ join_idx' = join_idx + 1
    /\ UNCHANGED <<sup_pc, shutdown_flag, task_queue, result_queue,
                   progress_queue, batch_size, processed, cur, total_checked,
                   found_count, now, start_time, last_stats_time, log, mem_low,
                   n_submitted, n_changes, last_change_time, n_reports>>
    /\ UNCHANGED worker_vars
    /\ UNCHANGED fn_vars

\* the join times out after 1 s and p.is_alive(): p.terminate().  SIGTERM
\* ends the worker, or, where the worker inherited the handler of the parent
\* (fork), only sets the flag again and the worker runs on.
S_JoinTimeout ==
    /\ sup_pc = "join"
    /\ join_idx <= THREADS
    /\ ~Exited(join_idx)
    /\ \E ends \in BOOLEAN :
          w_pc' = IF ends THEN [w_pc EXCEPT ![join_idx] = "killed"] ELSE w_pc
    /\ join_idx' = join_idx + 1
    /\ UNCHANGED <<sup_pc, shutdown_flag, task_queue, result_queue,
                   progress_queue, batch_size, processed, cur, total_checked,
                   found_count, now, start_time, last_stats_time, log, mem_low,
                   n_submitted, n_changes, last_change_time, n_reports>>
    /\ UNCHANGED <<w_batch, w_checked, w_found, n_matches, n_processed>>
    /\ UNCHANGED fn_vars

\* the final report is printed, the manager is shut down: Stopped
S_Report ==
    /\ sup_pc = "join"
    /\ join_idx = THREADS + 1
    /\ n_reports' = n_reports + 1
    /\ sup_pc' = "Stopped"
    /\ UNCHANGED <<shutdown_flag, task_queue, result_queue, progress_queue,
                   batch_size, processed, cur, total_checked, found_count, now,
                   start_time, last_stats_time, log, join_idx, mem_low,
                   n_submitted, n_changes, last_change_time>>
    /\ UNCHANGED worker_vars
    /\ UNCHANGED fn_vars

\* ------------------------------------------------------------------ worker
\* while not self.shutdown_flag.is_set(): the flag is seen, the loop ends
W_Stop(w) ==
    /\ w_pc[w] = "get"
    /\ sup_pc # "Stopped"
    /\ shutdown_flag
    /\ w_pc' = [w_pc EXCEPT ![w] = "exit"]
    /\ UNCHANGED <<shutdown_flag, task_queue, result_queue, progress_queue>>
    /\ UNCHANGED sup_vars
    /\ UNCHANGED <<w_batch, w_checked, w_found, n_matches, n_processed>>
    /\ UNCHANGED fn_vars

\* batch_size = task_queue.get(timeout=1): an item arrives.  None ends the
\* loop; a batch size starts the batch with found = [] and checked = 0.
W_Get(w) ==
    /\ w_pc[w] = "get"
    /\ sup_pc # "Stopped"
    /\ task_queue # <<>>
    /\ task_queue' = Tail(task_queue)
    /\ IF Head(task_queue) = None
       THEN /\ w_pc' = [w_pc EXCEPT ![w] = "exit"]
            /\ UNCHANGED <<w_batch, w_checked, w_found>>
       ELSE /\ w_pc' = [w_pc EXCEPT ![w] = "batch"]
            /\ w_batch' = [w_batch EXCEPT ![w] = Head(task_queue)]
            /\ w_checked' = [w_checked EXCEPT ![w] = 0]
            /\ w_found' = [w_found EXCEPT ![w] = <<>>]
    /\ UNCHANGED <<shutdown_flag, result_queue, progress_queue>>
    /\ UNCHANGED sup_vars
    /\ UNCHANGED <<n_matches, n_processed>>
    /\ UNCHANGED fn_vars

\* task_queue.get(timeout=1) on an empty queue: the manager queue raises
\* queue.Empty, which except multiprocessing.TimeoutError does not catch; the
\* outer except Exception prints the error and the worker ends.
W_Timeout(w) ==
    /\ w_pc[w] = "get"
    /\ sup_pc # "Stopped"
    /\ task_queue = <<>>
    /\ w_pc' = [w_pc EXCEPT ![w] = "error"]
    /\ UNCHANGED <<shutdown_flag, task_queue, result_queue, progress_queue>>
    /\ UNCHANGED sup_vars
    /\ UNCHANGED <<w_batch, w_checked, w_found, n_matches, n_processed>>
    /\ UNCHANGED fn_vars

\* the numbers of candidates one step of the model takes through the loop
\* body: one, or all that are left of the batch
Chunks(w) ==
    {k \in {1, w_batch[w] - w_checked[w]} :
        k = 1 => w_checked[w] < MaxSingleSteps}

\* for _ in range(batch_size): the flag is clear, a key is generated, the
\* address derived, checked += 1; the last candidate of the step may be in
\* address_list, and is then appended to found
W_Iterate(w) ==
    /\ w_pc[w] = "batch"
    /\ sup_pc # "Stopped"
    /\ ~shutdown_flag
    /\ w_checked[w] < w_batch[w]
    /\ \E k \in Chunks(w) :
          /\ w_checked' = [w_checked EXCEPT ![w] = @ + k]
          /\ n_processed' = n_processed + k
    /\ \E match \in BOOLEAN :
          IF match /\ n_matches < MaxMatches
          THEN /\ n_matches' = n_matches + 1
               /\ w_found' = [w_found EXCEPT ![w] = Append(@, n_matches + 1)]
          ELSE UNCHANGED <<n_matches, w_found>>
    /\ UNCHANGED <<shutdown_flag, task_queue, result_queue, progress_queue>>
    /\ UNCHANGED sup_vars
    /\ UNCHANGED <<w_pc, w_batch>>
    /\ UNCHANGED fn_vars

\* if found: result_queue.put(found)
PutFound(q, found) == IF found # <<>> THEN Append(q, found) ELSE q

\* the for loop ends (the range is exhausted, or the flag is set and the
\* loop breaks); the found list goes on result_queue
W_PutResult(w) ==
    /\ w_pc[w] = "batch"
    /\ sup_pc # "Stopped"
    /\ w_checked[w] = w_batch[w] \/ shutdown_flag
    /\ result_queue' = PutFound(result_queue, w_found[w])
    /\ w_pc' = [w_pc EXCEPT ![w] = "put_progress"]
    /\ UNCHANGED <<shutdown_flag, task_queue, progress_queue>>
    /\ UNCHANGED sup_vars
    /\ UNCHANGED <<w_batch, w_checked, w_found, n_matches, n_processed>>
    /\ UNCHANGED fn_vars

\* progress_queue.put(checked)
W_PutProgress(w) ==
    /\ w_pc[w] = "put_progress"
    /\ sup_pc # "Stopped"
    /\ progress_queue' = Append(progress_queue, w_checked[w])
    /\ w_pc' = [w_pc EXCEPT ![w] = "get"]
    /\ w_batch' = [w_batch EXCEPT ![w] = 0]
    /\ w_checked' = [w_checked EXCEPT ![w] = 0]
    /\ w_found' = [w_found EXCEPT ![w] = <<>>]
    /\ UNCHANGED <<shutdown_flag, task_queue, result_queue>>
    /\ UNCHANGED sup_vars
    /\ UNCHANGED <<n_matches, n_processed>>
    /\ UNCHANGED fn_vars

\* the manager is gone with the supervisor: the next queue operation of a
\* worker that still runs raises, and the worker ends
W_ManagerGone(w) ==
    /\ sup_pc = "Stopped"
    /\ ~Exited(w)
    /\ w_pc' = [w_pc EXCEPT ![w] = "error"]
    /\ UNCHANGED <<shutdown_flag, task_queue, result_queue, progress_queue>>
    /\ UNCHANGED sup_vars
    /\ UNCHANGED <<w_batch, w_checked, w_found, n_matches, n_processed>>
    /\ UNCHANGED fn_vars

\* ------------------------------------------------------------ specification
Supervisor ==
    \/ S_LoopTest(MaxSubmits) \/ S_Submit \/ S_Cleanup
    \/ S_ResultsGet \/ S_ResultsEmpty \/ S_Write \/ S_Count
    \/ S_Progress
    \/ S_Stats \/ S_Sleep(RoundTicks)
    \/ S_JoinExited \/ S_JoinTimeout \/ S_Report

Worker(w) ==
    \/ W_Stop(w) \/ W_Get(w) \/ W_Timeout(w)
    \/ W_Iterate(w) \/ W_PutResult(w) \/ W_PutProgress(w)
    \/ W_ManagerGone(w)

Next == HandleSignal \/ Supervisor \/ (\E w \in Workers : Worker(w))

Spec == Init /\ [][Next]_vars

\* The main process keeps running: no call of the supervisor blocks for
\* ever (result_queue.get() is called on a queue found non-empty whose only
\* reader is the supervisor, join has a timeout, sleep returns).  Nothing is
\* assumed of the workers or of the signal.
SupervisorFair ==
    \/ S_LoopTest(MaxSubmitsFair) \/ S_Submit \/ S_Cleanup
    \/ S_ResultsGet \/ S_ResultsEmpty \/ S_Write \/ S_Count
    \/ S_Progress
    \/ S_Stats \/ S_Sleep(RoundTicks)
    \/ S_JoinExited \/ S_JoinTimeout \/ S_Report

NextFair == HandleSignal \/ SupervisorFair \/ (\E w \in Workers : Worker(w))

SpecFair == Init /\ [][NextFair]_vars /\ WF_vars(SupervisorFair)

\* ---------------------------------------------------------------- SpecCtl
\* The supervisor loop and its controller against an unconstrained pool: the
\* measured throughput and the memory headroom are inputs.
\* A batch leaves task_queue and a count arrives on progress_queue, at most
\* once in an iteration of the supervisor.
EnvPool ==
    /\ sup_pc = "results"
    /\ task_queue # <<>>
    /\ progress_queue = <<>>
    /\ task_queue' = Tail(task_queue)
    /\ \E c \in CtlCounts : progress_queue' = Append(progress_queue, c)
    /\ UNCHANGED <<shutdown_flag, result_queue>>
    /\ UNCHANGED sup_vars
    /\ UNCHANGED worker_vars
    /\ UNCHANGED fn_vars

\* The memory headroom of the machine crosses the safety threshold.
EnvMemory ==
    /\ sup_pc = "sleep"
    /\ mem_low' = ~mem_low
    /\ UNCHANGED <<sup_pc, shutdown_flag, task_queue, result_queue,
                   progress_queue, batch_size, processed, cur, total_checked,
                   found_count, now, start_time, last_stats_time, log,
                   join_idx, n_submitted, n_changes, last_change_time,
                   n_reports>>
    /\ UNCHANGED worker_vars
    /\ UNCHANGED fn_vars

NextCtl ==
    \/ S_LoopTest(MaxRounds) \/ S_Submit \/ S_ResultsEmpty \/ S_Progress
    \/ S_Stats \/ S_Sleep(Delays)
    \/ EnvPool \/ EnvMemory

SpecCtl == Init /\ [][NextCtl]_vars

\* ---------------------------------------------------------------- SpecKey
\* One worker at lines 146-155: a key is generated, the address derived; and
\* private_key_to_address called with any argument.  Values that are not
\* read again are cleared: the result of the previous call when a new draw
\* starts, the draws of generate_valid_private_key when the key is used.
LastCallCleared(c) ==
    [c EXCEPT !.caller = "none", !.arg = <<>>, !.addr = NoAddress,
              !.mul = FALSE, !.point = NoPoint]

\* generate_valid_private_key, one pass of its loop: the flag is clear, 32
\* bytes are drawn; a draw in range is returned, any other draw is dropped
\* and the loop goes on
G_Draw ==
    /\ cand.pc = "gen"
    /\ ~shutdown_flag
    /\ \E b \in KeyDraws :
          cand' = IF KeyAccepted(FromBytes(b))
                  THEN [LastCallCleared(cand) EXCEPT
                           !.draw = b, !.key = b, !.pc = "derive"]
                  ELSE [LastCallCleared(cand) EXCEPT
                           !.draw = b, !.dropped = b, !.key = <<>>]
    /\ UNCHANGED <<shutdown_flag, task_queue, result_queue, progress_queue>>
    /\ UNCHANGED sup_vars
    /\ UNCHANGED worker_vars
    /\ UNCHANGED <<db, dl>>

\* the flag is set: the loop of generate_valid_private_key ends, b'' is
\* returned, and the worker leaves its for loop (if not priv_key: break)
G_Shutdown ==
    /\ cand.pc = "gen"
    /\ shutdown_flag
    /\ cand' = [cand EXCEPT !.key = <<>>, !.pc = "break"]
    /\ UNCHANGED <<shutdown_flag, task_queue, result_queue, progress_queue>>
    /\ UNCHANGED sup_vars
    /\ UNCHANGED worker_vars
    /\ UNCHANGED <<db, dl>>

\* address = self.private_key_to_address(priv_key), then the next candidate
W_Derive ==
    /\ cand.pc = "derive"
    /\ LET r == PrivateKeyToAddress(cand.key)
       IN  cand' = [cand EXCEPT !.caller = "worker", !.arg = cand.key,
                                !.addr = r.addr, !.mul = r.mul,
                                !.point = r.point, !.pc = "gen",
                                !.key = <<>>, !.draw = <<>>,
                                !.dropped = <<>>]
    /\ UNCHANGED <<shutdown_flag, task_queue, result_queue, progress_queue>>
    /\ UNCHANGED sup_vars
    /\ UNCHANGED worker_vars
    /\ UNCHANGED <<db, dl>>

\* private_key_to_address called on its own, with any argument, while no
\* call of generate_valid_private_key is under way
PK_Call ==
    /\ cand.pc = "gen"
    /\ cand.draw = <<>>
    /\ \E k \in KeyInputs :
          LET r == PrivateKeyToAddress(k)
          IN  cand' = [cand EXCEPT !.caller = "direct", !.arg = k,
                                   !.addr = r.addr, !.mul = r.mul,
                                   !.point = r.point]
    /\ UNCHANGED <<shutdown_flag, task_queue, result_queue, progress_queue>>
    /\ UNCHANGED sup_vars
    /\ UNCHANGED worker_vars
    /\ UNCHANGED <<db, dl>>

NextKey == HandleSignal \/ G_Draw \/ G_Shutdown \/ W_Derive \/ PK_Call

SpecKey == Init /\ [][NextKey]_vars

\* --------------------------------------------------------------- SpecLoad
\* scan_addresses up to the start of the workers, and the lookups of a
\* worker in the loaded lists.
\* load_address_database: download_address_file() has returned; on True the
\* file is opened (downloaded, f: the result and the contents of the file)
L_Open ==
    /\ db.pc = "idle"
    /\ \E downloaded \in BOOLEAN, f \in Files :
          IF downloaded
          THEN db' = [db EXCEPT !.pc = "lines", !.file = f, !.rest = f]
          ELSE /\ f = <<>>
               /\ db' = [db EXCEPT !.pc = "failed", !.ret = "False",
                                    !.cause = "download"]
    /\ UNCHANGED <<shutdown_flag, task_queue, result_queue, progress_queue>>
    /\ UNCHANGED sup_vars
    /\ UNCHANGED worker_vars
    /\ UNCHANGED <<cand, dl>>

\* one line of the file: the flag is set and the load returns False; or the
\* line is processed, and an exception that the inner except does not catch
\* reaches the outer one, which returns False
L_Line ==
    /\ db.pc = "lines"
    /\ db.rest # <<>>
    /\ IF shutdown_flag
       THEN db' = [db EXCEPT !.pc = "failed", !.ret = "False",
                             !.cause = "shutdown"]
       ELSE LET r == LoadLine(db.address_list, db.balance_list, Head(db.rest))
            IN  IF r.raised
                THEN db' = [db EXCEPT !.pc = "failed", !.ret = "False",
                                      !.cause = "error"]
                ELSE db' = [db EXCEPT !.address_list = r.addrs,
                                      !.balance_list = r.bals,
                                      !.rest = Tail(db.rest)]
    /\ UNCHANGED <<shutdown_flag, task_queue, result_queue, progress_queue>>
    /\ UNCHANGED sup_vars
    /\ UNCHANGED worker_vars
    /\ UNCHANGED <<cand, dl>>

\* the file is read: both lists are reordered by the sorted indices, the
\* number of addresses is printed, True is returned
L_Sort ==
    /\ db.pc = "lines"
    /\ db.rest = <<>>
    /\ LET idx == SortedIndices(db.address_list)
       IN  db' = [db EXCEPT !.address_list = Reorder(db.address_list, idx),
                            !.balance_list = Reorder(db.balance_list, idx),
                            !.ret = "True", !.pc = "loaded"]
    /\ UNCHANGED <<shutdown_flag, task_queue, result_queue, progress_queue>>
    /\ UNCHANGED sup_vars
    /\ UNCHANGED worker_vars
    /\ UNCHANGED <<cand, dl>>

\* scan_addresses: if not self.load_address_database(): return; otherwise the
\* manager, the queues and the workers are started and the loop is entered
SC_Start ==
    /\ db.pc \in {"loaded", "failed"}
    /\ db' = [db EXCEPT !.pc = IF db.ret = "True" THEN "scanning"
                                ELSE "returned"]
    /\ UNCHANGED <<shutdown_flag, task_queue, result_queue, progress_queue>>
    /\ UNCHANGED sup_vars
    /\ UNCHANGED worker_vars
    /\ UNCHANGED <<cand, dl>>

\* a worker looks an address up in the lists
W_Lookup ==
    /\ db.pc = "scanning"
    /\ \E q \in Queries :
          db' = [db EXCEPT !.query = q,
                           !.hit = Lookup(db.address_list, db.balance_list, q)]
    /\ UNCHANGED <<shutdown_flag, task_queue, result_queue, progress_queue>>
    /\ UNCHANGED sup_vars
    /\ UNCHANGED worker_vars
    /\ UNCHANGED <<cand, dl>>

NextLoad == HandleSignal \/ L_Open \/ L_Line \/ L_Sort \/ SC_Start \/ W_Lookup

SpecLoad == Init /\ [][NextLoad]_vars

\* ----------------------------------------------------------- SpecDownload
\* download_address_file is called: an existing DOWNLOAD_PATH is accepted,
\* otherwise the loop over range(MAX_RETRIES) starts
D_Call ==
    /\ dl.pc = "idle"
    /\ dl.calls < MaxCalls
    /\ dl' = IF Exists(dl.file)
             THEN [dl EXCEPT !.calls = @ + 1, !.ret = "True", !.attempt = 0,
                             !.attempts = 0, !.failed = 0, !.sleeps = 0]
             ELSE [dl EXCEPT !.calls = @ + 1, !.ret = "none", !.attempt = 0,
                             !.attempts = 0, !.failed = 0, !.sleeps = 0,
                             !.pc = "get"]
    /\ UNCHANGED <<shutdown_flag, task_queue, result_queue, progress_queue>>
    /\ UNCHANGED sup_vars
    /\ UNCHANGED worker_vars
    /\ UNCHANGED <<cand, db>>

\* an attempt starts: requests.get and raise_for_status; on success
\* open(DOWNLOAD_PATH, 'wb') creates or truncates the file
D_Get ==
    /\ dl.pc = "get"
    /\ \E ok \in BOOLEAN :
          dl' = IF ok
                THEN [dl EXCEPT !.attempts = @ + 1, !.file = 0, !.pc = "stream"]
                ELSE AttemptFailed([dl EXCEPT !.attempts = @ + 1])
    /\ UNCHANGED <<shutdown_flag, task_queue, result_queue, progress_queue>>
    /\ UNCHANGED sup_vars
    /\ UNCHANGED worker_vars
    /\ UNCHANGED <<cand, db>>

\* for chunk in r.iter_content(...): f.write(chunk); the stream or the write
\* may raise at any chunk
D_Chunk ==
    /\ dl.pc = "stream"
    /\ ~Complete(dl.file)
    /\ \E ok \in BOOLEAN :
          dl' = IF ok THEN [dl EXCEPT !.file = @ + 1] ELSE AttemptFailed(dl)
    /\ UNCHANGED <<shutdown_flag, task_queue, result_queue, progress_queue>>
    /\ UNCHANGED sup_vars
    /\ UNCHANGED worker_vars
    /\ UNCHANGED <<cand, db>>

\* the stream is exhausted: return True
D_Done ==
    /\ dl.pc = "stream"
    /\ Complete(dl.file)
    /\ dl' = [dl EXCEPT !.ret = "True", !.pc = "idle"]
    /\ UNCHANGED <<shutdown_flag, task_queue, result_queue, progress_queue>>
    /\ UNCHANGED sup_vars
    /\ UNCHANGED worker_vars
    /\ UNCHANGED <<cand, db>>

\* time.sleep(RETRY_DELAY), then the next attempt of the loop
D_Sleep ==
    /\ dl.pc = "sleep"
    /\ dl' = [dl EXCEPT !.sleeps = @ + 1, !.waited = @ + RETRY_DELAY,
                        !.attempt = @ + 1, !.pc = "get"]
    /\ UNCHANGED <<shutdown_flag, task_queue, result_queue, progress_queue>>
    /\ UNCHANGED sup_vars
    /\ UNCHANGED worker_vars
    /\ UNCHANGED <<cand, db>>

NextDownload == D_Call \/ D_Get \/ D_Chunk \/ D_Done \/ D_Sleep

SpecDownload == Init /\ [][NextDownload]_vars

\* ------------------------------------------------------------------ claims
Last(q) == q[Len(q)]

CountIn(q, m) == Cardinality({i \in 1..Len(q) : q[i] = m})

RECURSIVE Flatten(_)
Flatten(q) == IF q = <<>> THEN <<>> ELSE Head(q) \o Flatten(Tail(q))

\* batches submitted whose progress count the supervisor has not consumed:
\* in task_queue, held by a worker, or counted on progress_queue
InFlight ==
    Cardinality({i \in 1..Len(task_queue) : task_queue[i] # None})
    + Cardinality({w \in Workers : w_pc[w] \in {"batch", "put_progress"}})
    + Len(progress_queue)

\* a limit below the number of iterations the run lasts
BackpressureLimit == MaxRounds - 1

\* C1: the number of in-flight batches never exceeds a fixed backpressure
\* limit, however long the run lasts and however far the pool falls behind.
C1_InFlightBounded == InFlight <= BackpressureLimit

\* C2: when the supervisor is Stopped, every match a worker found before
\* that is in the found-record log.
C2_MatchesFlushedAtStop ==
    sup_pc = "Stopped" => \A m \in 1..n_matches : CountIn(log, m) >= 1

\* C3: found_count never exceeds the number of records written to the log:
\* a record is appended before the increment that counts it.
C3_RecordedBeforeCounted == found_count <= Len(log)

\* the second record is written and not yet counted
C3_Witness == Len(log) = 2 /\ found_count = 1 /\ sup_pc = "count"

\* the records of the list in hand that are not yet written
Unwritten == IF sup_pc = "count" THEN Tail(cur) ELSE cur

\* the places a match is in on its way to the log, the log included
Occurrences(m) ==
    CountIn(log, m) + CountIn(Unwritten, m)
    + CountIn(Flatten(result_queue), m)
    + Cardinality({w \in Workers :
                     w_pc[w] = "batch" /\ CountIn(w_found[w], m) >= 1})

\* the supervisor has not left its loop for the cleanup
Running == sup_pc \notin {"join", "Stopped"}

\* C4: no match is ever written to the log more than once, and while the
\* supervisor keeps running every match is in exactly one place: the found
\* list of its worker, result_queue, the list the supervisor is writing, or
\* the log.
C4_ExactlyOnce ==
    /\ \A m \in 1..n_matches : CountIn(log, m) <= 1
    /\ Running => \A m \in 1..n_matches : Occurrences(m) = 1

\* two matches of one batch, found in the same round, are both in the log
C4_Witness ==
    /\ Running
    /\ n_submitted = 1
    /\ n_matches = 2
    /\ \A m \in 1..2 : CountIn(log, m) = 1
    /\ found_count = 2

\* C5: total_checked never exceeds the candidates the workers processed, and
\* when the run has ended it equals their number.
C5_TotalMatchesProcessed ==
    /\ total_checked <= n_processed
    /\ sup_pc = "Stopped" => total_checked = n_processed

\* C6: every batch size on task_queue lies in
\* [MIN_BATCH_SIZE, MAX_BATCH_SIZE].
C6_BatchSizeInRange ==
    \A i \in 1..Len(task_queue) :
        task_queue[i] # None =>
            /\ MIN_BATCH_SIZE <= task_queue[i]
            /\ task_queue[i] <= MAX_BATCH_SIZE

\* a batch of the ceiling size is submitted after a doubling that was capped
C6_Witness ==
    /\ task_queue # <<>>
    /\ Last(task_queue) = MAX_BATCH_SIZE
    /\ n_changes = 3

\* the adjustment is made in this step
Adjusts == sup_pc = "stats" /\ sup_pc' = "sleep" /\ StatsDue(now, last_stats_time)

\* 0.8 x and 1.2 x TARGET_SPEED in candidates per tick
LowPerTick == ((TARGET_SPEED \div TicksPerSecond) * 4) \div 5
HighPerTick == ((TARGET_SPEED \div TicksPerSecond) * 6) \div 5

\* C7: one adjustment doubles the batch size (capped at MAX_BATCH_SIZE) when
\* the throughput is below 0.8 x TARGET_SPEED, halves it (floored at
\* MIN_BATCH_SIZE) when it is above 1.2 x TARGET_SPEED, and leaves it
\* unchanged in between.
C7_Adjustment ==
    [][Adjusts =>
        LET e == now - start_time
        IN  batch_size' =
              IF total_checked < LowPerTick * e
              THEN Min(2 * batch_size, MAX_BATCH_SIZE)
              ELSE IF total_checked > HighPerTick * e
                   THEN Max(batch_size \div 2, MIN_BATCH_SIZE)
                   ELSE batch_size]_vars

\* four halvings have reached the floor, and an adjustment at target has
\* just left the size unchanged
C7_Witness ==
    /\ sup_pc = "sleep"
    /\ batch_size = MIN_BATCH_SIZE
    /\ n_changes = 4
    /\ last_stats_time = now
    /\ last_change_time < now
    /\ total_checked >= LowPerTick * (now - start_time)
    /\ total_checked <= HighPerTick * (now - start_time)

\* C8: the first batch size the supervisor submits is MIN_BATCH_SIZE.
C8_FirstBatchIsMinimum ==
    [][n_submitted = 0 /\ n_submitted' = 1 =>
        Last(task_queue') = MIN_BATCH_SIZE]_vars

\* C8, amended: the first batch size the supervisor submits is
\* INITIAL_BATCH_SIZE, which lies in [MIN_BATCH_SIZE, MAX_BATCH_SIZE].
C8_FirstBatchIsInitial ==
    [][n_submitted = 0 /\ n_submitted' = 1 =>
        /\ Last(task_queue') = INITIAL_BATCH_SIZE
        /\ MIN_BATCH_SIZE <= Last(task_queue')
        /\ Last(task_queue') <= MAX_BATCH_SIZE]_vars

\* the first batch is on task_queue
C8_Witness == n_submitted = 1 /\ task_queue = <<INITIAL_BATCH_SIZE>>

\* C9: between two changes of batch_size at least STATS_INTERVAL passes.
C9_OncePerInterval ==
    [][batch_size' # batch_size /\ n_changes >= 1 =>
        now - last_change_time >= STATS_INTERVAL]_vars

\* two changes, with an iteration between them that changed nothing
C9_Witness ==
    /\ n_changes = 2
    /\ last_change_time = 2 * STATS_INTERVAL + 1
    /\ n_submitted = 4

\* C10: at an adjustment with the memory headroom below the threshold the
\* batch size does not grow, and shrinks unless it is at the floor.
C10_MemoryGuard ==
    [][Adjusts /\ mem_low =>
        /\ batch_size' <= batch_size
        /\ batch_size > MIN_BATCH_SIZE => batch_size' < batch_size]_vars

\* the scalar of the argument of the last call of private_key_to_address
ArgScalar == FromBytes(cand.arg)

\* C12: generate_valid_private_key rejects and resamples: a key it returns is
\* the draw itself, KeyLen bytes long with 1 <= d < n; a draw of 0 or of a
\* value >= n is not returned (the loop goes on, nothing is returned in its
\* place); and every key a worker passes to private_key_to_address is a
\* scalar with 1 <= d < n.
C12_RejectAndResample ==
    /\ cand.pc = "derive" =>
          /\ cand.key # <<>>
          /\ cand.key = cand.draw
          /\ Len(cand.key) = KeyLen
          /\ 1 <= FromBytes(cand.key) /\ FromBytes(cand.key) < secp256k1_n
    /\ (cand.draw # <<>> /\ (FromBytes(cand.draw) = 0
                              \/ FromBytes(cand.draw) >= secp256k1_n)) =>
          cand.key = <<>> /\ cand.pc # "derive"
    /\ cand.caller = "worker" =>
          Len(cand.arg) = KeyLen /\ 1 <= ArgScalar /\ ArgScalar < secp256k1_n

\* a draw of n was dropped and a later draw, n - 1, was returned to the worker
C12_Witness ==
    /\ cand.pc = "derive" /\ cand.dropped = <<secp256k1_n>>
    /\ cand.key = <<secp256k1_n - 1>>

\* C13: private_key_to_address returns no result, and does not call
\* _ecc_point_mul, for an argument that is not exactly KeyLen bytes or whose
\* integer value is 0 or >= n.
C13_MalformedRejected ==
    (cand.caller # "none"
        /\ (Len(cand.arg) # KeyLen \/ ArgScalar = 0 \/ ArgScalar >= secp256k1_n))
    => (cand.addr = NoAddress /\ ~cand.mul)

\* a call with a key of the right length and the value n returned nothing
C13_Witness ==
    /\ cand.caller = "direct" /\ cand.arg = <<secp256k1_n>>
    /\ cand.addr = NoAddress /\ ~cand.mul

\* the curve equation y^2 = x^3 + 7 (mod p)
OnCurve(Q) ==
    Q # NoPoint /\ (Q[2] * Q[2] - Q[1] * Q[1] * Q[1] - 7) % secp256k1_p = 0

\* the group law in the short-Weierstrass form; NoPoint is the point at
\* infinity
RefAdd(P, Q) ==
    IF P = NoPoint THEN Q
    ELSE IF Q = NoPoint THEN P
    ELSE IF P[1] = Q[1] /\ (P[2] + Q[2]) % secp256k1_p = 0 THEN NoPoint
    ELSE LET l == IF P[1] = Q[1]
                  THEN (3 * P[1] * P[1]
                          * ModPow(2 * P[2], secp256k1_p - 2, secp256k1_p))
                          % secp256k1_p
                  ELSE ((Q[2] - P[2])
                          * ModPow(Q[1] - P[1], secp256k1_p - 2, secp256k1_p))
                          % secp256k1_p
             x == (l * l - P[1] - Q[1]) % secp256k1_p
         IN  <<x, (l * (P[1] - x) - P[2]) % secp256k1_p>>

\* double-and-add from the most significant bit
RECURSIVE RefMul(_)
RefMul(d) ==
    IF d = 0 THEN NoPoint
    ELSE LET h == RefMul(d \div 2)
             dbl == RefAdd(h, h)
         IN  IF d % 2 = 1
             THEN RefAdd(dbl, <<secp256k1_Gx, secp256k1_Gy>>)
             ELSE dbl

\* C14: for every scalar d with 1 <= d < n, the point _ecc_point_mul(d)
\* returned is on the curve and is d*G as the reference double-and-add
\* computes it.
C14_PointIsMultiple ==
    (cand.mul /\ 1 <= ArgScalar /\ ArgScalar < secp256k1_n)
    => (OnCurve(cand.point) /\ cand.point = RefMul(ArgScalar))

C18_PoolKeepsSize ==
    \A w \in Workers : Exited(w) => shutdown_flag

\* C19: once the shutdown flag is set, the supervisor puts no batch size on
\* task_queue: from then on the queue only loses items to the workers or gains
\* the None sentinels, one per worker.
C19_NoBatchAfterFlag ==
    [][shutdown_flag =>
          \/ task_queue' = task_queue
          \/ task_queue # <<>> /\ task_queue' = Tail(task_queue)
          \/ task_queue' = task_queue \o [i \in 1..THREADS |-> None]]_vars

\* a line the format admits: at least two fields, an identifier that starts
\* with '1' or '3', a numeric balance
WellFormed(line) ==
    line.n >= 2 /\ StartsWith13(line.addr) /\ line.bal.kind = "num"

\* the (identifier, balance) pairs of the well-formed lines of a file
RECURSIVE InputPairs(_)
InputPairs(f) ==
    IF f = <<>> THEN <<>>
    ELSE (IF WellFormed(Head(f))
          THEN <<<<Strip(Head(f).addr), Head(f).bal.tenths \div 10>>>>
          ELSE <<>>) \o InputPairs(Tail(f))

\* the pairs of the two lists, index by index
ListPairs ==
    [i \in 1..Len(db.address_list) |->
        <<db.address_list[i], db.balance_list[i]>>]

SamePairs(s, t) ==
    /\ Len(s) = Len(t)
    /\ \A i \in 1..Len(s) : CountIn(s, s[i]) = CountIn(t, s[i])

\* C15: after a completed load the lists are of equal length, address_list is
\* sorted, the pairs of the lists are the pairs of the input (the sort keeps
\* the pairing); the lookup finds exactly the identifiers that were inserted,
\* and the balance it returns is one the input pairs with that identifier.
C15_ExactMembership ==
    db.pc = "scanning" =>
       /\ Len(db.address_list) = Len(db.balance_list)
       /\ \A i, j \in 1..Len(db.address_list) :
             i < j => ~StrLess(db.address_list[j], db.address_list[i])
       /\ SamePairs(ListPairs, InputPairs(db.file))
       /\ db.query # <<>> =>
             /\ db.hit.present <=>
                   \E i \in 1..Len(InputPairs(db.file)) :
                       InputPairs(db.file)[i][1] = db.query
             /\ db.hit.present =>
                   \E i \in 1..Len(InputPairs(db.file)) :
                       InputPairs(db.file)[i] = <<db.query, db.hit.balance>>

\* a file out of order with one identifier on two lines: the lookup of that
\* identifier finds it, with the balance of its first line
C15_Witness ==
    /\ db.pc = "scanning"
    /\ db.file = <<Line(3, Addr3A, Num(25)), Line(2, Addr1A, Num(25)),
                   Line(2, Addr1A, Num(5))>>
    /\ db.query = Addr1A /\ db.hit = [present |-> TRUE, balance |-> 2]

\* C16: a line with fewer than two fields or with a balance that is not a
\* number adds nothing, the well-formed lines before and after it are
\* loaded, and the load returns True (unless the download failed or a
\* shutdown interrupted it).
C16_MalformedSkipped ==
    (db.pc \in {"loaded", "failed"} /\ db.cause \notin {"download", "shutdown"})
    => (db.ret = "True" /\ SamePairs(ListPairs, InputPairs(db.file)))

\* C17: with zero identifiers loaded the run aborts at startup: no worker is
\* started and no batch is submitted.
C17_EmptySetIsFatal ==
    db.pc = "scanning" => db.address_list # <<>>

\* C20: a call of download_address_file makes at most MAX_RETRIES attempts,
\* sleeps RETRY_DELAY only between two attempts, returns False exactly when
\* MAX_RETRIES attempts have failed, and returns True only when the file at
\* DOWNLOAD_PATH is a completely downloaded one.
C20_DownloadRetries ==
    /\ dl.attempts <= MAX_RETRIES
    /\ dl.sleeps <= MAX_RETRIES - 1
    /\ dl.waited <= dl.calls * (MAX_RETRIES - 1) * RETRY_DELAY
    /\ dl.pc = "sleep" => dl.sleeps < dl.attempts /\ dl.attempts < MAX_RETRIES
    /\ dl.pc = "idle" => dl.sleeps = IF dl.attempts = 0 THEN 0
                                     ELSE dl.attempts - 1
    /\ dl.ret = "False" <=> (dl.pc = "idle" /\ dl.failed = MAX_RETRIES)
    /\ dl.ret = "True" => Complete(dl.file)

=============================================================================
